---- MODULE Spec2Model ----
(***************************************************************************)
(* Second-stage BIOS bootloader of springboard (bios/stage-2/src/main.rs). *)
(* _start enters unreal mode, parses the 4-entry partition table, finds    *)
(* the FAT partition that follows the 0x20 partition, loads boot-stage-3,  *)
(* boot-stage-4 and kernel-x86_64 above 1 MiB through the 16 KiB           *)
(* DISK_BUFFER and finally enters protected mode.                          *)
(*                                                                         *)
(* The modules disk, fat and protected_mode are called by main.rs but are  *)
(* not part of the sources at hand; they are modelled from their           *)
(* description (sections 4.2 - 4.4 of the specification).                  *)
(***************************************************************************)
EXTENDS Integers, Sequences, FiniteSets, TLC

(***************************************************************************)
(* Program constants.                                                      *)
(***************************************************************************)
BOOTLOADER_SECOND_STAGE_PARTITION_TYPE == 32
STAGE_3_DST == 1048576
KERNEL_DST == 16777216
DISK_BUFFER_SIZE == 16384
MAX_ENTRIES == 4
ENTRY_SIZE == 16
LBA_SECTOR_BYTES == 512
STAGE_4_ALIGN == 512

(***************************************************************************)
(* Bounds of the model.                                                    *)
(***************************************************************************)
\* longest regular cluster chain of a file on the modelled disks
MaxClusters == 2
\* number of byte patterns the LBA/length fields of the tables are drawn from
NumSeeds == 2
\* clusters of the one oversized boot-stage-4 of BigImage (15 MiB + 32 KiB)
BigClusters == 481

Min(a, b) == IF a <= b THEN a ELSE b

FileIds == 1..3
FileNames == <<"boot-stage-3", "boot-stage-4", "kernel-x86_64">>

(***************************************************************************)
(* Raw partition tables handed over by the boot sector: 4 records of 16    *)
(* bytes.  The type byte of each record is drawn from TypeBytes, the LBA   *)
(* and length bytes from a pattern selected by seed, every other byte is   *)
(* filler that differs from the fields next to it.  The values keep every  *)
(* u32 below 2^31 and LBA * 512 of the entries 1..3 below 2^31.            *)
(***************************************************************************)
TypeBytes == {0, 1, 6, 12, 32, 131}

RawByte(types, seed, k, j) ==
    CASE j = 4  -> types[k]
      [] j = 8  -> 3 + 17 * k + 5 * seed
      [] j = 9  -> k + seed
      [] j = 10 -> IF k = 0 THEN 200 ELSE 0
      [] j = 11 -> IF k = 0 THEN 127 ELSE 0
      [] j = 12 -> 250 - k
      [] j = 13 -> (128 * seed + k) % 256
      [] j = 14 -> 255
      [] j = 15 -> 100 + k
      [] OTHER  -> (7 + 16 * k + j + 64 * seed) % 256

RawTable(types, seed) ==
    [b \in 0..(ENTRY_SIZE * MAX_ENTRIES - 1) |->
        RawByte(types, seed, b \div ENTRY_SIZE, b % ENTRY_SIZE)]

AllTables ==
    {RawTable(t, s) : t \in [0..(MAX_ENTRIES - 1) -> TypeBytes], s \in 0..(NumSeeds - 1)}

\* entry[1] = 0x20 followed by FAT16 (the layout of the end-to-end example),
\* and 0x20 first followed by FAT32
FewTables ==
    {RawTable([k \in 0..3 |-> <<131, 32, 6, 0>>[k + 1]], 0),
     RawTable([k \in 0..3 |-> <<32, 12, 32, 1>>[k + 1]], 1)}

(***************************************************************************)
(* mbr_nostd and byteorder, as used by the parser.                         *)
(***************************************************************************)
from_mbr_tag_byte(tag) ==
    CASE tag = 0 -> [variant |-> "Unused", tag |-> 0]
      [] tag = 1 -> [variant |-> "Fat12", tag |-> tag]
      [] tag \in {4, 6, 14} -> [variant |-> "Fat16", tag |-> tag]
      [] tag \in {11, 12, 27, 28} -> [variant |-> "Fat32", tag |-> tag]
      [] tag = 131 -> [variant |-> "LinuxExt", tag |-> tag]
      [] tag = 7 -> [variant |-> "HpfsNtfs", tag |-> tag]
      [] tag = 15 -> [variant |-> "Extended", tag |-> tag]
      [] OTHER -> [variant |-> "Unknown", tag |-> tag]

read_u32(bytes, at) ==
    bytes[at] + 256 * bytes[at + 1] + 65536 * bytes[at + 2] + 16777216 * bytes[at + 3]

PartitionTableEntry_empty ==
    [partition_type |-> [variant |-> "Unused", tag |-> 0],
     logical_block_address |-> 0, length |-> 0]

(***************************************************************************)
(* main.rs 54-60: one round of the parsing loop, and the loop.             *)
(***************************************************************************)
\* the two u32 fields taken from each other's offset
ParseEntry_swapped(rawtab, idx) ==
    LET offset == idx * ENTRY_SIZE
    IN  [partition_type |-> from_mbr_tag_byte(rawtab[offset + 4]),
         logical_block_address |-> read_u32(rawtab, offset + 12),
         length |-> read_u32(rawtab, offset + 8)]

ParseEntry(rawtab, idx) ==
    LET offset == idx * ENTRY_SIZE
    IN  [partition_type |-> from_mbr_tag_byte(rawtab[offset + 4]),
         logical_block_address |-> read_u32(rawtab, offset + 8),
         length |-> read_u32(rawtab, offset + 12)]

ParseTable(rawtab) == [idx \in 0..(MAX_ENTRIES - 1) |-> ParseEntry(rawtab, idx)]

(***************************************************************************)
(* main.rs 64-76: the partition lookups.                                   *)
(***************************************************************************)
IsSecondStage(e) ==
    e.partition_type = [variant |-> "Unknown", tag |-> BOOTLOADER_SECOND_STAGE_PARTITION_TYPE]

\* the last match instead of the first
FindSecondStage_last(parts) ==
    IF \E i \in 0..(MAX_ENTRIES - 1) : IsSecondStage(parts[i])
    THEN CHOOSE i \in 0..(MAX_ENTRIES - 1) :
            /\ IsSecondStage(parts[i])
            /\ \A j \in (i + 1)..(MAX_ENTRIES - 1) : ~IsSecondStage(parts[j])
    ELSE -1

\* iter().enumerate().find(..): the index of the first match, -1 for None
FindSecondStage(parts) ==
    IF \E i \in 0..(MAX_ENTRIES - 1) : IsSecondStage(parts[i])
    THEN CHOOSE i \in 0..(MAX_ENTRIES - 1) :
            /\ IsSecondStage(parts[i])
            /\ \A j \in 0..(i - 1) : ~IsSecondStage(parts[j])
    ELSE -1

IsFat(e) == e.partition_type.variant \in {"Fat12", "Fat16", "Fat32"}

(***************************************************************************)
(* The FAT partition (module fat).  A disk is described by its cluster     *)
(* size and, per file, whether the root directory names it, the number of  *)
(* clusters of its chain, its size in bytes and whether the chain ends in  *)
(* an out-of-range entry instead of the end-of-chain marker.  Cluster j of *)
(* file f is cluster 2 + (f - 1) + 3 * j: the chains of the three files    *)
(* are interleaved, so no file is contiguous on disk.                      *)
(***************************************************************************)
END_OF_CHAIN == 65528
Geometry == [fat_offset |-> 512, root_dir_offset |-> 16384, data_offset |-> 32768]

ClusterOf(f, j) == 2 + (f - 1) + 3 * j
maximum_valid_cluster == ClusterOf(3, BigClusters + 1)

\* content of byte o of the partition: differs between the sectors compared here
DiskByte(o) == (o + 3 * (o \div 512)) % 256

fat_entry_of_nth_cluster(img, c) ==
    LET f == ((c - 2) % 3) + 1
        j == (c - 2) \div 3
        lay == img.files[f]
    IN  IF ~lay.present \/ j >= lay.chain_len THEN 0
        ELSE IF j < lay.chain_len - 1 THEN ClusterOf(f, j + 1)
        ELSE IF lay.bad_tail THEN 1
        ELSE END_OF_CHAIN

\* Some(entry) or None ("FileNotFound")
find_file_in_root_dir(img, f) ==
    IF img.files[f].present
    THEN [found |-> TRUE, first_cluster |-> ClusterOf(f, 0), size |-> img.files[f].size]
    ELSE [found |-> FALSE, first_cluster |-> 0, size |-> 0]

file_clusters(entry) == [current_entry |-> entry.first_cluster, remaining |-> entry.size]

classify_fat_entry(e) ==
    IF e >= END_OF_CHAIN THEN "EndOfFile"
    ELSE IF e < 2 \/ e > maximum_valid_cluster THEN "Err"
    ELSE "AllocatedCluster"

\* the extent of the traverser's current cluster: the last one is capped by the size
cluster_extent(img, trav) ==
    [start_offset |-> Geometry.data_offset
                        + (trav.current_entry - 2) * img.bytes_per_cluster,
     len_bytes |-> Min(img.bytes_per_cluster, trav.remaining)]

traverser_advance(img, trav) ==
    [current_entry |-> fat_entry_of_nth_cluster(img, trav.current_entry),
     remaining |-> trav.remaining - Min(img.bytes_per_cluster, trav.remaining)]

(***************************************************************************)
(* The disks of the model.                                                 *)
(***************************************************************************)
Absent == [present |-> FALSE, chain_len |-> 0, size |-> 0, bad_tail |-> FALSE]
Regular(n, size) == [present |-> TRUE, chain_len |-> n, size |-> size, bad_tail |-> FALSE]
Corrupt(cs) == [present |-> TRUE, chain_len |-> 1, size |-> 2 * cs, bad_tail |-> TRUE]

\* a last cluster that is partly used: 321 of 512, 20481 of 32768 bytes
Partial(cs) == (5 * cs) \div 8 + 1

Layouts(cs) ==
    {Absent, Corrupt(cs), Regular(2, Partial(cs))}
    \cup {Regular(n, (n - 1) * cs + last) : n \in 1..MaxClusters, last \in {cs, Partial(cs)}}

ClusterSizes == {512, 32768}

Images ==
    UNION {{[bytes_per_cluster |-> cs, files |-> fl] : fl \in [FileIds -> Layouts(cs)]} :
              cs \in ClusterSizes}

\* three files of one full cluster each
Image0 ==
    [bytes_per_cluster |-> 512, files |-> [f \in FileIds |-> Regular(1, 512)]]

\* boot-stage-4 of 15 MiB + 32 KiB behind a one-sector boot-stage-3
BigImage ==
    [bytes_per_cluster |-> 32768,
     files |-> [f \in FileIds |->
                  IF f = 2 THEN Regular(BigClusters, BigClusters * 32768)
                  ELSE [present |-> TRUE, chain_len |-> 1, size |-> 512, bad_tail |-> FALSE]]]

\* the disk of the end-to-end example: files of 4096, 2048 and 8192 bytes
ExampleImage ==
    [bytes_per_cluster |-> 2048,
     files |-> [f \in FileIds |-> Regular(<<2, 1, 4>>[f], <<4096, 2048, 8192>>[f])]]

\* the disk of the round-trip example: 3000 bytes in 3 clusters of 1024 bytes
RoundTripImage ==
    [bytes_per_cluster |-> 1024, files |-> [f \in FileIds |-> Regular(3, 3000)]]

Inputs ==
    (AllTables \X {Image0})
    \cup (FewTables \X (Images \cup {BigImage, ExampleImage, RoundTripImage}))

\* byte i of file f, read off the disk along the file's cluster chain
FileByte(img, f, i) ==
    DiskByte(Geometry.data_offset
                + (ClusterOf(f, i \div img.bytes_per_cluster) - 2) * img.bytes_per_cluster
                + (i % img.bytes_per_cluster))

(***************************************************************************)
(* The staging buffer and the memory above 1 MiB (module protected_mode).  *)
(* DISK_BUFFER is described by the partition offset its 16384 bytes were   *)
(* read from (-1: still zeroed); high memory by the set of the pieces      *)
(* [lo, hi) written so far, each with the partition offset of its first    *)
(* byte.  Unwritten memory reads as 0.                                     *)
(***************************************************************************)
BufByte(buf, j) == IF buf < 0 THEN 0 ELSE DiskByte(buf + j)

Remainders(p, lo, hi) ==
    (IF p.lo < lo THEN {[lo |-> p.lo, hi |-> Min(p.hi, lo), src |-> p.src]} ELSE {})
    \cup
    (IF p.hi > hi
     THEN LET l == IF p.lo > hi THEN p.lo ELSE hi
          IN  {[lo |-> l, hi |-> p.hi, src |-> p.src + (l - p.lo)]}
     ELSE {})

copy_to_protected_mode(mem, target, buf, n) ==
    IF n = 0 THEN mem
    ELSE UNION {Remainders(p, target, target + n) : p \in mem}
           \cup {[lo |-> target, hi |-> target + n, src |-> buf]}

read_from_protected_mode(mem, ptr) ==
    IF \E p \in mem : p.lo <= ptr /\ ptr < p.hi
    THEN LET p == CHOOSE q \in mem : q.lo <= ptr /\ ptr < q.hi
         IN  BufByte(p.src, ptr - p.lo)
    ELSE 0

\* dst.wrapping_add(n): every address of the model is far below 2^32
wrapping_add(ptr, n) == ptr + n

\* ptr.align_offset(align) of a byte pointer
align_offset(ptr, align) == (align - (ptr % align)) % align

(***************************************************************************)
(* State.  pc is the position in _start / load_file; the variables named   *)
(* like locals of main.rs hold those locals.  image is the medium behind   *)
(* the BIOS disk service.  last_op is the latest operation the stage       *)
(* invoked on the screen, the disk or the bridge, n_ops counts them,       *)
(* bios_reads counts the BIOS disk reads since enter_unreal_mode, and      *)
(* loads lists the load_file calls that returned.                          *)
(***************************************************************************)
VARIABLES pc, mode, failure,
          raw, partitions, second_stage_partition_idx, fat_partition,
          image, disk, DISK_BUFFER, highmem, bridge_ok,
          file, dst, kernel, clusters, cluster_start, cluster_end, total_size,
          offset, range_start, range_end, len, written,
          stage_3_len, stage_4_dst, loads,
          last_op, n_ops, bios_reads

partVars == <<raw, partitions, second_stage_partition_idx, fat_partition>>
ioVars == <<image, disk, DISK_BUFFER, highmem, bridge_ok>>
clusterVars == <<kernel, clusters, cluster_start, cluster_end, total_size>>
chunkVars == <<offset, range_start, range_end, len, written>>
startVars == <<file, dst, stage_3_len, stage_4_dst, loads>>
histVars == <<last_op, n_ops, bios_reads>>
vars == <<pc, mode, failure, partVars, ioVars, clusterVars, chunkVars, startVars, histVars>>

BiosReadOps == {"FileSystem::parse", "find_file_in_root_dir", "file_clusters.next",
                "read_exact_into"}

\* the stage invokes operation o (on address or offset a, for n bytes)
Did(o, a, n) ==
    /\ last_op' = [op |-> o, file |-> file, addr |-> a, n |-> n]
    /\ n_ops' = n_ops + 1
    /\ bios_reads' = IF o = "enter_unreal_mode" THEN 0
                     ELSE IF o \in BiosReadOps THEN bios_reads + 1
                     ELSE bios_reads

\* unwrap / expect / assert! failed: the panic never returns
Panic(why) == pc' = "panic" /\ failure' = why

Init ==
    /\ \E input \in Inputs : raw = input[1] /\ image = input[2]
    /\ pc = "start"
    /\ mode = "RealMode"
    /\ failure = ""
    /\ partitions = [idx \in 0..(MAX_ENTRIES - 1) |-> PartitionTableEntry_empty]
    /\ second_stage_partition_idx = 0
    /\ fat_partition = PartitionTableEntry_empty
    /\ disk = [base_offset |-> 0, current_offset |-> 0]
    /\ DISK_BUFFER = -1
    /\ highmem = {}
    /\ bridge_ok = TRUE
    /\ file = 0
    /\ dst = 0
    /\ kernel = [found |-> FALSE, first_cluster |-> 0, size |-> 0]
    /\ clusters = [current_entry |-> 0, remaining |-> 0]
    /\ cluster_start = 0 /\ cluster_end = 0 /\ total_size = 0
    /\ offset = 0 /\ range_start = 0 /\ range_end = 0 /\ len = 0 /\ written = 0
    /\ stage_3_len = 0 /\ stage_4_dst = 0
    /\ loads = <<>>
    /\ last_op = [op |-> "none", file |-> 0, addr |-> 0, n |-> 0]
    /\ n_ops = 0
    /\ bios_reads = 0

(***************************************************************************)
(* _start, main.rs 43-87.                                                  *)
(***************************************************************************)
\* 43: the banner
Banner ==
    /\ pc = "start"
    /\ Did("screen", 0, 0)
    /\ pc' = "unreal"
    /\ UNCHANGED <<mode, failure, partVars, ioVars, clusterVars, chunkVars, startVars>>

\* the call left out
EnterUnrealMode_forgotten ==
    /\ pc = "unreal"
    /\ pc' = "parse"
    /\ UNCHANGED <<mode, failure, partVars, ioVars, clusterVars, chunkVars, startVars,
                   histVars>>

\* 45
EnterUnrealMode ==
    /\ pc = "unreal"
    /\ mode' = "UnrealMode"
    /\ Did("enter_unreal_mode", 0, 0)
    /\ pc' = "parse"
    /\ UNCHANGED <<failure, partVars, ioVars, clusterVars, chunkVars, startVars>>

\* 48-62
ParsePartitionTable ==
    /\ pc = "parse"
    /\ partitions' = ParseTable(raw)
    /\ pc' = "find"
    /\ UNCHANGED <<mode, failure, raw, second_stage_partition_idx, fat_partition,
                   ioVars, clusterVars, chunkVars, startVars, histVars>>

\* 64-71: find(..).unwrap().0
FindSecondStagePartition ==
    /\ pc = "find"
    /\ LET found == FindSecondStage(partitions)
       IN  IF found >= 0
           THEN /\ second_stage_partition_idx' = found
                /\ pc' = "get"
                /\ UNCHANGED failure
           ELSE /\ Panic("no second stage partition")
                /\ UNCHANGED second_stage_partition_idx
    /\ UNCHANGED <<mode, raw, partitions, fat_partition,
                   ioVars, clusterVars, chunkVars, startVars, histVars>>

\* 72: partitions.get(idx + 1).unwrap()
GetFatPartition ==
    /\ pc = "get"
    /\ IF second_stage_partition_idx + 1 < MAX_ENTRIES
       THEN /\ fat_partition' = partitions[second_stage_partition_idx + 1]
            /\ pc' = "assert_fat"
            /\ UNCHANGED failure
       ELSE /\ Panic("no partition after the second stage partition")
            /\ UNCHANGED fat_partition
    /\ UNCHANGED <<mode, raw, partitions, second_stage_partition_idx,
                   ioVars, clusterVars, chunkVars, startVars, histVars>>

\* 73-76
AssertFatPartition ==
    /\ pc = "assert_fat"
    /\ IF IsFat(fat_partition)
       THEN pc' = "open" /\ UNCHANGED failure
       ELSE Panic("not a FAT partition")
    /\ UNCHANGED <<mode, partVars, ioVars, clusterVars, chunkVars, startVars, histVars>>

\* 79-87: DiskAccess, and FileSystem::parse reads the BIOS parameter block
OpenFileSystem ==
    /\ pc = "open"
    /\ disk' = [base_offset |-> fat_partition.logical_block_address * LBA_SECTOR_BYTES,
                current_offset |-> 0]
    /\ Did("FileSystem::parse", 0, LBA_SECTOR_BYTES)
    /\ \E bios_ok \in BOOLEAN :
          IF bios_ok
          THEN pc' = "load_stage_3" /\ UNCHANGED failure
          ELSE Panic("disk read failed")
    /\ UNCHANGED <<mode, partVars, image, DISK_BUFFER, highmem, bridge_ok,
                   clusterVars, chunkVars, startVars>>

(***************************************************************************)
(* load_file, main.rs 109-163.                                             *)
(***************************************************************************)
\* 117-121: the root directory is scanned through DISK_BUFFER
FindFile ==
    /\ pc = "find_file"
    /\ Did("find_file_in_root_dir", Geometry.root_dir_offset, DISK_BUFFER_SIZE)
    /\ \E bios_ok \in BOOLEAN :
          IF ~bios_ok
          THEN /\ Panic("disk read failed")
               /\ UNCHANGED <<DISK_BUFFER, kernel, clusters, total_size>>
          ELSE /\ DISK_BUFFER' = Geometry.root_dir_offset
               /\ LET entry == find_file_in_root_dir(image, file)
                  IN  IF entry.found
                      THEN /\ kernel' = entry
                           /\ total_size' = 0
                           /\ clusters' = file_clusters(entry)
                           /\ pc' = "next_cluster"
                           /\ UNCHANGED failure
                      ELSE /\ Panic("file not found")
                           /\ UNCHANGED <<kernel, clusters, total_size>>
    /\ UNCHANGED <<mode, partVars, image, disk, highmem, bridge_ok,
                   cluster_start, cluster_end, chunkVars, startVars>>

\* total_size = len_bytes instead of total_size += len_bytes
NextCluster_assign ==
    /\ pc = "next_cluster"
    /\ LET class == classify_fat_entry(clusters.current_entry)
           cluster == cluster_extent(image, clusters)
       IN  CASE class = "EndOfFile" ->
                  /\ pc' = "returned"
                  /\ UNCHANGED <<failure, clusterVars, offset, histVars>>
             [] class = "Err" ->
                  /\ Panic("cluster chain")
                  /\ UNCHANGED <<clusterVars, offset, histVars>>
             [] OTHER ->
                  /\ Did("file_clusters.next", Geometry.fat_offset, LBA_SECTOR_BYTES)
                  /\ \E bios_ok \in BOOLEAN :
                        IF ~bios_ok
                        THEN /\ Panic("disk read failed")
                             /\ UNCHANGED <<clusterVars, offset>>
                        ELSE /\ clusters' = traverser_advance(image, clusters)
                             /\ cluster_start' = cluster.start_offset
                             /\ cluster_end' = cluster.start_offset + cluster.len_bytes
                             /\ total_size' = cluster.len_bytes
                             /\ offset' = 0
                             /\ pc' = "loop"
                             /\ UNCHANGED <<failure, kernel>>
    /\ UNCHANGED <<mode, partVars, ioVars, range_start, range_end, len, written, startVars>>

\* 121-127: the iterator's next(), cluster.unwrap(), and the loop's first lines;
\* the end of the iteration is load_file's return (162)
NextCluster ==
    /\ pc = "next_cluster"
    /\ LET class == classify_fat_entry(clusters.current_entry)
           cluster == cluster_extent(image, clusters)
       IN  CASE class = "EndOfFile" ->
                  /\ pc' = "returned"
                  /\ UNCHANGED <<failure, clusterVars, offset, histVars>>
             [] class = "Err" ->
                  /\ Panic("cluster chain")
                  /\ UNCHANGED <<clusterVars, offset, histVars>>
             [] OTHER ->
                  /\ Did("file_clusters.next", Geometry.fat_offset, LBA_SECTOR_BYTES)
                  /\ \E bios_ok \in BOOLEAN :
                        IF ~bios_ok
                        THEN /\ Panic("disk read failed")
                             /\ UNCHANGED <<clusterVars, offset>>
                        ELSE /\ clusters' = traverser_advance(image, clusters)
                             /\ cluster_start' = cluster.start_offset
                             /\ cluster_end' = cluster.start_offset + cluster.len_bytes
                             /\ total_size' = total_size + cluster.len_bytes
                             /\ offset' = 0
                             /\ pc' = "loop"
                             /\ UNCHANGED <<failure, kernel>>
    /\ UNCHANGED <<mode, partVars, ioVars, range_start, range_end, len, written, startVars>>

\* the break left out: the loop spins at the end of the cluster
ChunkLoop_nobreak ==
    /\ pc = "loop"
    /\ range_start' = cluster_start + offset
    /\ IF cluster_start + offset >= cluster_end
       THEN /\ pc' = "loop"
            /\ UNCHANGED <<range_end, len, histVars>>
       ELSE /\ range_end' = Min(cluster_start + offset + DISK_BUFFER_SIZE, cluster_end)
            /\ len' = range_end' - range_start'
            /\ Did("screen", 0, 0)
            /\ pc' = "seek"
    /\ UNCHANGED <<mode, failure, partVars, ioVars, clusterVars, offset, written, startVars>>

\* > instead of >= in the loop's exit test
ChunkLoop_gt ==
    /\ pc = "loop"
    /\ range_start' = cluster_start + offset
    /\ IF cluster_start + offset > cluster_end
       THEN /\ pc' = "next_cluster"
            /\ UNCHANGED <<range_end, len, histVars>>
       ELSE /\ range_end' = Min(cluster_start + offset + DISK_BUFFER_SIZE, cluster_end)
            /\ len' = range_end' - range_start'
            /\ Did("screen", 0, 0)
            /\ pc' = "seek"
    /\ UNCHANGED <<mode, failure, partVars, ioVars, clusterVars, offset, written, startVars>>

\* 128-143: the head of the chunk loop
ChunkLoop ==
    /\ pc = "loop"
    /\ range_start' = cluster_start + offset
    /\ IF cluster_start + offset >= cluster_end
       THEN /\ pc' = "next_cluster"
            /\ UNCHANGED <<range_end, len, histVars>>
       ELSE /\ range_end' = Min(cluster_start + offset + DISK_BUFFER_SIZE, cluster_end)
            /\ len' = range_end' - range_start'
            /\ Did("screen", 0, 0)
            /\ pc' = "seek"
    /\ UNCHANGED <<mode, failure, partVars, ioVars, clusterVars, offset, written, startVars>>

\* the cursor left where the last read put it
Seek_forgets ==
    /\ pc = "seek"
    /\ Did("seek", range_start, 0)
    /\ pc' = "read"
    /\ UNCHANGED <<mode, failure, partVars, ioVars, clusterVars, chunkVars, startVars>>

\* 145
Seek ==
    /\ pc = "seek"
    /\ disk' = [disk EXCEPT !.current_offset = range_start]
    /\ Did("seek", range_start, 0)
    /\ pc' = "read"
    /\ UNCHANGED <<mode, failure, partVars, image, DISK_BUFFER, highmem, bridge_ok,
                   clusterVars, chunkVars, startVars>>

\* the rest of the cluster requested in one call
ReadExactInto_cluster ==
    /\ pc = "read"
    /\ Did("read_exact_into", disk.current_offset, cluster_end - range_start)
    /\ \E bios_ok \in BOOLEAN :
          IF bios_ok
          THEN /\ DISK_BUFFER' = disk.current_offset
               /\ disk' = [disk EXCEPT !.current_offset = @ + (cluster_end - range_start)]
               /\ pc' = "copy"
               /\ UNCHANGED failure
          ELSE /\ Panic("disk read failed")
               /\ UNCHANGED <<DISK_BUFFER, disk>>
    /\ UNCHANGED <<mode, partVars, image, highmem, bridge_ok,
                   clusterVars, chunkVars, startVars>>

\* 146: the whole buffer is filled from the cursor, which advances by as much
ReadExactInto ==
    /\ pc = "read"
    /\ Did("read_exact_into", disk.current_offset, DISK_BUFFER_SIZE)
    /\ \E bios_ok \in BOOLEAN :
          IF bios_ok
          THEN /\ DISK_BUFFER' = disk.current_offset
               /\ disk' = [disk EXCEPT !.current_offset = @ + DISK_BUFFER_SIZE]
               /\ pc' = "copy"
               /\ UNCHANGED failure
          ELSE /\ Panic("disk read failed")
               /\ UNCHANGED <<DISK_BUFFER, disk>>
    /\ UNCHANGED <<mode, partVars, image, highmem, bridge_ok,
                   clusterVars, chunkVars, startVars>>

\* the whole buffer copied instead of its first len bytes
CopyToProtectedMode_whole ==
    /\ pc = "copy"
    /\ \E landed \in BOOLEAN :
          /\ bridge_ok' = landed
          /\ highmem' = IF landed
                        THEN copy_to_protected_mode(highmem, wrapping_add(dst, offset),
                                                    DISK_BUFFER, DISK_BUFFER_SIZE)
                        ELSE highmem
    /\ Did("copy_to_protected_mode", wrapping_add(dst, offset), DISK_BUFFER_SIZE)
    /\ pc' = "readback"
    /\ UNCHANGED <<mode, failure, partVars, image, disk, DISK_BUFFER,
                   clusterVars, chunkVars, startVars>>

\* the next chunk read into DISK_BUFFER right after the copy, before the canary
CopyToProtectedMode_prefetch ==
    /\ pc = "copy"
    /\ \E landed \in BOOLEAN :
          /\ bridge_ok' = landed
          /\ highmem' = IF landed
                        THEN copy_to_protected_mode(highmem, wrapping_add(dst, offset),
                                                    DISK_BUFFER, len)
                        ELSE highmem
    /\ DISK_BUFFER' = disk.current_offset
    /\ disk' = [disk EXCEPT !.current_offset = @ + DISK_BUFFER_SIZE]
    /\ Did("read_exact_into", disk.current_offset, DISK_BUFFER_SIZE)
    /\ pc' = "readback"
    /\ UNCHANGED <<mode, failure, partVars, image, clusterVars, chunkVars, startVars>>

\* 148-151: slice = &disk_buffer.buffer[..len] goes to dst + offset.  The copy
\* depends on the extended segment limit: either it lands, or the memory at
\* the target stays as it was and reads back differently.
CopyToProtectedMode ==
    /\ pc = "copy"
    /\ \E landed \in BOOLEAN :
          /\ bridge_ok' = landed
          /\ highmem' = IF landed
                        THEN copy_to_protected_mode(highmem, wrapping_add(dst, offset),
                                                    DISK_BUFFER, len)
                        ELSE highmem
    /\ Did("copy_to_protected_mode", wrapping_add(dst, offset), len)
    /\ pc' = "readback"
    /\ UNCHANGED <<mode, failure, partVars, image, disk, DISK_BUFFER,
                   clusterVars, chunkVars, startVars>>

\* the canary read at the start of the file instead of the chunk
ReadFromProtectedMode_wrongaddr ==
    /\ pc = "readback"
    /\ written' = IF bridge_ok
                  THEN read_from_protected_mode(highmem, dst)
                  ELSE (BufByte(DISK_BUFFER, 0) + 1) % 256
    /\ Did("read_from_protected_mode", dst, 1)
    /\ pc' = "canary"
    /\ UNCHANGED <<mode, failure, partVars, ioVars, clusterVars,
                   offset, range_start, range_end, len, startVars>>

\* 152-156
ReadFromProtectedMode ==
    /\ pc = "readback"
    /\ written' = IF bridge_ok
                  THEN read_from_protected_mode(highmem, wrapping_add(dst, offset))
                  ELSE (BufByte(DISK_BUFFER, 0) + 1) % 256
    /\ Did("read_from_protected_mode", wrapping_add(dst, offset), 1)
    /\ pc' = "canary"
    /\ UNCHANGED <<mode, failure, partVars, ioVars, clusterVars,
                   offset, range_start, range_end, len, startVars>>

\* the comparison dropped: the loop goes on whatever was read back
AssertCanary_continue ==
    /\ pc = "canary"
    /\ offset' = offset + len
    /\ pc' = "loop"
    /\ UNCHANGED <<mode, failure, partVars, ioVars, clusterVars,
                   range_start, range_end, len, written, startVars, histVars>>

\* 157-159: assert_eq!(slice[0], written); offset += len
AssertCanary ==
    /\ pc = "canary"
    /\ IF BufByte(DISK_BUFFER, 0) = written
       THEN /\ offset' = offset + len
            /\ pc' = "loop"
            /\ UNCHANGED failure
       ELSE /\ Panic("canary")
            /\ UNCHANGED offset
    /\ UNCHANGED <<mode, partVars, ioVars, clusterVars,
                   range_start, range_end, len, written, startVars, histVars>>

(***************************************************************************)
(* _start, main.rs 89-106.                                                 *)
(***************************************************************************)
\* the end of stage 3 taken as it is
Stage4Dst_unaligned(stage_3_length) == wrapping_add(STAGE_3_DST, stage_3_length)

\* rounded down to the sector boundary instead of up
Stage4Dst_rounddown(stage_3_length) ==
    LET stage_3_end == wrapping_add(STAGE_3_DST, stage_3_length)
    IN  stage_3_end - (stage_3_end % STAGE_4_ALIGN)

\* 91-95

Stage4Dst(stage_3_length) ==
    LET stage_3_end == wrapping_add(STAGE_3_DST, stage_3_length)
    IN  wrapping_add(stage_3_end, align_offset(stage_3_end, STAGE_4_ALIGN))

\* a call of load_file: its parameters (109-116)
Call(f, target) ==
    /\ file' = f
    /\ dst' = target
    /\ pc' = "find_file"
    /\ UNCHANGED <<mode, failure, partVars, ioVars, clusterVars, chunkVars,
                   stage_3_len, stage_4_dst, loads, histVars>>

\* 89
LoadStage3 == pc = "load_stage_3" /\ Call(1, STAGE_3_DST)

\* 89-95: the returned length, the progress line, the next destination
Stage3Loaded ==
    /\ pc = "returned" /\ file = 1
    /\ stage_3_len' = total_size
    /\ stage_4_dst' = Stage4Dst(total_size)
    /\ loads' = Append(loads, [file |-> file, dst |-> dst, total |-> total_size])
    /\ Did("screen", 0, 0)
    /\ pc' = "load_stage_4"
    /\ UNCHANGED <<mode, failure, partVars, ioVars, clusterVars, chunkVars, file, dst>>

\* the kernel's name and destination in the second call
LoadStage4_kernel == pc = "load_stage_4" /\ Call(3, KERNEL_DST)

\* 96
LoadStage4 == pc = "load_stage_4" /\ Call(2, stage_4_dst)

\* the kernel's load left out
Stage4Loaded_skipkernel ==
    /\ pc = "returned" /\ file = 2
    /\ loads' = Append(loads, [file |-> file, dst |-> dst, total |-> total_size])
    /\ Did("screen", 0, 0)
    /\ pc' = "jump"
    /\ UNCHANGED <<mode, failure, partVars, ioVars, clusterVars, chunkVars,
                   file, dst, stage_3_len, stage_4_dst>>

\* 96-97
Stage4Loaded ==
    /\ pc = "returned" /\ file = 2
    /\ loads' = Append(loads, [file |-> file, dst |-> dst, total |-> total_size])
    /\ Did("screen", 0, 0)
    /\ pc' = "load_kernel"
    /\ UNCHANGED <<mode, failure, partVars, ioVars, clusterVars, chunkVars,
                   file, dst, stage_3_len, stage_4_dst>>

\* 98
LoadKernel == pc = "load_kernel" /\ Call(3, KERNEL_DST)

\* 98-99
KernelLoaded ==
    /\ pc = "returned" /\ file = 3
    /\ loads' = Append(loads, [file |-> file, dst |-> dst, total |-> total_size])
    /\ Did("screen", 0, 0)
    /\ pc' = "jump"
    /\ UNCHANGED <<mode, failure, partVars, ioVars, clusterVars, chunkVars,
                   file, dst, stage_3_len, stage_4_dst>>

\* 104: control leaves the stage for good
EnterProtectedModeAndJump ==
    /\ pc = "jump"
    /\ mode' = "ProtectedMode"
    /\ Did("enter_protected_mode_and_jump_to_stage_3", STAGE_3_DST, 0)
    /\ pc' = "stage_3"
    /\ UNCHANGED <<failure, partVars, ioVars, clusterVars, chunkVars, startVars>>

Next ==
    \/ Banner
    \/ EnterUnrealMode
    \/ ParsePartitionTable
    \/ FindSecondStagePartition
    \/ GetFatPartition
    \/ AssertFatPartition
    \/ OpenFileSystem
    \/ LoadStage3
    \/ FindFile
    \/ NextCluster
    \/ ChunkLoop
    \/ Seek
    \/ ReadExactInto
    \/ CopyToProtectedMode
    \/ ReadFromProtectedMode
    \/ AssertCanary
    \/ Stage3Loaded
    \/ LoadStage4
    \/ Stage4Loaded
    \/ LoadKernel
    \/ KernelLoaded
    \/ EnterProtectedModeAndJump

Spec == Init /\ [][Next]_vars

\* _start runs on the only execution context there is, without pre-emption:
\* whenever a statement can be executed, one is.
FairSpec == Spec /\ WF_vars(Next)

(***************************************************************************)
(* Properties.                                                             *)
(***************************************************************************)
Range(l) == [lo |-> l.dst, hi |-> l.dst + l.total]
Disjoint(a, b) == a.hi <= b.lo \/ b.hi <= a.lo
AllLoaded == pc \in {"jump", "stage_3"}

\* C1: once load_file has returned for a file with a well-formed cluster
\* chain, byte i of the file is at dst + i, for every i below the file's size.
C1_ContiguousAtDst ==
    (pc = "returned" /\ ~image.files[file].bad_tail)
        => \A i \in 0..(kernel.size - 1) :
              read_from_protected_mode(highmem, wrapping_add(dst, i))
                  = FileByte(image, file, i)

\* C2, as claimed: whatever the sizes of the three files, the ranges
\* [dst, dst + total) of the three loads are pairwise disjoint.
C2_AlwaysDisjoint ==
    AllLoaded => \A a, b \in 1..3 : a < b => Disjoint(Range(loads[a]), Range(loads[b]))

\* C2, amended: the ranges [0x100000, 0x100000 + len 3), [stage_4_dst,
\* stage_4_dst + len 4) and [0x1000000, 0x1000000 + len kernel) are pairwise
\* disjoint whenever 0x100000 + len 3, rounded up to a multiple of 512, plus
\* len 4 is at most 0x1000000.
C2_DisjointIfBelowKernel ==
    (/\ AllLoaded
     /\ ((STAGE_3_DST + loads[1].total + 511) \div 512) * 512 + loads[2].total
            <= KERNEL_DST)
        => /\ loads[1].dst = STAGE_3_DST /\ loads[3].dst = KERNEL_DST
           /\ \A a, b \in 1..3 : a < b => Disjoint(Range(loads[a]), Range(loads[b]))

C2_Witness ==
    /\ pc = "stage_3"
    /\ loads[1].total % 512 # 0
    /\ loads[2].dst + loads[2].total <= KERNEL_DST

\* C3: the protected-mode jump is invoked only after the loads of
\* boot-stage-3, boot-stage-4 and kernel-x86_64 have returned, in this
\* order, and after it no seek, disk read or copy (no operation at all) follows.
C3_JumpAfterLoadsOnly ==
    /\ [](last_op.op = "enter_protected_mode_and_jump_to_stage_3"
            => /\ Len(loads) = 3
               /\ \A f \in 1..3 : loads[f].file = f)
    /\ [][last_op.op = "enter_protected_mode_and_jump_to_stage_3"
            => UNCHANGED <<last_op, n_ops, disk, DISK_BUFFER, highmem>>]_vars

C3_Witness ==
    /\ last_op.op = "enter_protected_mode_and_jump_to_stage_3"
    /\ Len(loads) = 3 /\ n_ops > 20

RawType(k) == raw[ENTRY_SIZE * k + 4]
HasBootEntry == \E k \in 0..3 : RawType(k) = 32
FirstBootEntry == CHOOSE k \in 0..3 : RawType(k) = 32 /\ \A j \in 0..(k - 1) : RawType(j) # 32
FatTypeBytes == {1, 4, 6, 14, 11, 12, 27, 28}

\* a failure is about to be detected by the statement the stage is at
FailureNow ==
    \/ pc = "find" /\ ~HasBootEntry
    \/ pc = "get" /\ FirstBootEntry = 3
    \/ pc = "assert_fat" /\ RawType(FirstBootEntry + 1) \notin FatTypeBytes
    \/ pc = "find_file" /\ ~image.files[file].present
    \/ pc = "next_cluster" /\ classify_fat_entry(clusters.current_entry) = "Err"
    \/ pc = "canary" /\ written # BufByte(DISK_BUFFER, 0)

\* C4: on a failure (no 0x20 entry, no or no FAT entry after it, file not
\* found, a cluster extent that is an error, a canary mismatch) the stage
\* halts, and once halted it reads no disk, copies nothing and never enters
\* protected mode.
C4_HaltDontContinue ==
    [][/\ FailureNow => (pc' = "panic" /\ n_ops' <= n_ops + 1 /\ highmem' = highmem)
       /\ pc = "panic" => UNCHANGED <<pc, mode, last_op, n_ops, disk, DISK_BUFFER, highmem>>]_vars

C4_Witness == pc = "panic" /\ failure = "canary" /\ Len(loads) = 1

\* C5, as claimed: no BIOS disk read is issued between enter_unreal_mode and
\* the completion of a copy_to_protected_mode.
C5_NoBiosSinceUnrealMode ==
    last_op.op = "copy_to_protected_mode" => bios_reads = 0

\* C5, amended: no BIOS interrupt (no operation at all) is invoked between
\* the read_exact_into that fills DISK_BUFFER for a chunk and the copy of
\* that chunk, which runs in the unreal mode entered once at the start; BIOS
\* disk reads are issued between enter_unreal_mode and every copy.
C5_NoBiosBetweenFillAndCopy ==
    /\ [][(n_ops' # n_ops /\ last_op'.op = "copy_to_protected_mode")
            => /\ last_op.op = "read_exact_into"
               /\ last_op.addr = range_start
               /\ DISK_BUFFER = range_start
               /\ mode = "UnrealMode"]_vars
    /\ [](last_op.op = "copy_to_protected_mode" => bios_reads > 0)

C5_Witness ==
    /\ last_op.op = "copy_to_protected_mode" /\ bios_reads > 4 /\ offset > 0

\* C6: the operation that follows a copy_to_protected_mode(dst + offset, ..)
\* is read_from_protected_mode at the same address dst + offset, and when
\* the byte read back differs from slice[0] the stage halts without
\* advancing to the next chunk.
C6_CanaryAfterEveryCopy ==
    /\ [](last_op.op = "copy_to_protected_mode"
            => pc = "readback" /\ last_op.addr = dst + offset)
    /\ [][(last_op.op = "copy_to_protected_mode" /\ n_ops' # n_ops)
            => /\ last_op'.op = "read_from_protected_mode"
               /\ last_op'.addr = last_op.addr
               /\ pc' = "canary"]_vars
    /\ [][(pc = "canary" /\ written # BufByte(DISK_BUFFER, 0))
            => pc' = "panic" /\ offset' = offset /\ n_ops' = n_ops]_vars

C6_Witness ==
    /\ last_op.op = "read_from_protected_mode" /\ offset > 0
    /\ written # BufByte(DISK_BUFFER, 0)

\* C7: the mode only moves RealMode -> UnrealMode -> ProtectedMode, every
\* copy_to_protected_mode and read_from_protected_mode runs in UnrealMode,
\* and no step is taken in ProtectedMode.
C7_ModeStateMachine ==
    /\ [][mode' # mode
            => \/ mode = "RealMode" /\ mode' = "UnrealMode"
               \/ mode = "UnrealMode" /\ mode' = "ProtectedMode"]_vars
    /\ [][(n_ops' # n_ops
            /\ last_op'.op \in {"copy_to_protected_mode", "read_from_protected_mode"})
            => mode = "UnrealMode" /\ mode' = "UnrealMode"]_vars
    /\ [][mode = "ProtectedMode" => UNCHANGED vars]_vars

C7_Witness == mode = "ProtectedMode" /\ highmem # {}

BadTable ==
    \/ ~HasBootEntry
    \/ FirstBootEntry = 3
    \/ RawType(FirstBootEntry + 1) \notin FatTypeBytes

BeforeDiskAccess ==
    /\ bios_reads = 0
    /\ last_op.op \in {"none", "screen", "enter_unreal_mode"}
    /\ disk = [base_offset |-> 0, current_offset |-> 0]
    /\ DISK_BUFFER = -1

\* C9: the partition the files are loaded from is the entry right after the
\* first entry of type 0x20; when no entry has type 0x20, or that entry is
\* the fourth, or the entry after it is not FAT12/16/32, the stage halts
\* and has accessed no disk.
C9_FatPartitionFollowsBootEntry ==
    /\ BadTable => /\ BeforeDiskAccess
                   /\ pc \in {"start", "unreal", "parse", "find", "get", "assert_fat", "panic"}
    /\ ~BeforeDiskAccess
          => /\ ~BadTable
             /\ fat_partition.partition_type.tag = RawType(FirstBootEntry + 1)
             /\ disk.base_offset
                  = 512 * (raw[ENTRY_SIZE * (FirstBootEntry + 1) + 8]
                             + 256 * raw[ENTRY_SIZE * (FirstBootEntry + 1) + 9]
                             + 65536 * raw[ENTRY_SIZE * (FirstBootEntry + 1) + 10]
                             + 16777216 * raw[ENTRY_SIZE * (FirstBootEntry + 1) + 11])

C9_Witness ==
    /\ pc = "panic" /\ HasBootEntry /\ FirstBootEntry = 1
    /\ failure = "not a FAT partition" /\ BeforeDiskAccess

\* C10: parsing yields exactly 4 entries in input order; entry k has the
\* type byte at offset 4, the little-endian LBA at offset 8 and the
\* little-endian sector count at offset 12 of record k.
C10_ParseReproducesRecords ==
    pc \notin {"start", "unreal", "parse"}
        => /\ DOMAIN partitions = 0..3
           /\ \A k \in 0..3 :
                /\ partitions[k].partition_type.tag = raw[16 * k + 4]
                /\ partitions[k].logical_block_address
                     = raw[16 * k + 8] + 256 * raw[16 * k + 9]
                         + 65536 * raw[16 * k + 10] + 16777216 * raw[16 * k + 11]
                /\ partitions[k].length
                     = raw[16 * k + 12] + 256 * raw[16 * k + 13]
                         + 65536 * raw[16 * k + 14] + 16777216 * raw[16 * k + 15]

C10_Witness ==
    /\ pc = "find"
    /\ partitions[0].logical_block_address > 16777216
    /\ partitions[3].partition_type.variant = "Fat32"
    /\ partitions[1].length # partitions[2].length

\* the table names a FAT partition and the disk holds the three files with
\* well-formed chains
GoodInput ==
    /\ ~BadTable
    /\ \A f \in FileIds : image.files[f].present /\ ~image.files[f].bad_tail

EnvironmentFailed == pc = "panic" /\ failure \in {"disk read failed", "canary"}

\* C11: with a FAT partition after the 0x20 partition, the three files
\* present with well-formed chains, and no disk read and no canary check
\* failing, the stage eventually invokes
\* enter_protected_mode_and_jump_to_stage_3(0x100000); in particular every
\* chunk loop and every cluster loop ends.
C11_EventuallyJumps ==
    /\ [](GoodInput => failure \in {"", "disk read failed", "canary"})
    /\ GoodInput ~> (\/ EnvironmentFailed
                     \/ /\ pc = "stage_3"
                        /\ last_op.op = "enter_protected_mode_and_jump_to_stage_3"
                        /\ last_op.addr = 1048576)

C11_Witness ==
    /\ pc = "stage_3" /\ last_op.addr = 1048576
    /\ image.bytes_per_cluster = 32768
    /\ \A f \in 1..3 : loads[f].total > 32768

\* the operations load_file invokes on the disk and on the bridge
LoadOps == {"find_file_in_root_dir", "file_clusters.next", "seek", "read_exact_into",
            "copy_to_protected_mode", "read_from_protected_mode"}

\* the last chunk loop of the file has run to the end of its extent and the
\* cluster chain is at its end
FileExhausted ==
    /\ classify_fat_entry(clusters.current_entry) = "EndOfFile"
    /\ cluster_start + offset = cluster_end

\* C12: the files are loaded in the order boot-stage-3, boot-stage-4,
\* kernel-x86_64: the file at hand only moves to the next one, and it does
\* so with the previous load_file returned, its cluster chain at the end and
\* its last extent read, copied and canary-checked to the last byte; every
\* disk or bridge operation belongs to the one file whose load has not
\* returned yet, so no chunk of a file is written between two chunks of
\* another.
C12_FixedOrderNoInterleaving ==
    /\ [][file' # file
            => /\ file' = file + 1
               /\ Len(loads) = file
               /\ file >= 1 => loads[file].file = file /\ FileExhausted]_vars
    /\ [][n_ops' # n_ops
            => last_op'.file = file /\ last_op'.file >= last_op.file]_vars
    /\ [](last_op.op \in LoadOps => last_op.file = Len(loads) + 1)
    /\ [](\A k \in 1..Len(loads) : loads[k].file = k)

C12_Witness ==
    /\ last_op.op = "copy_to_protected_mode" /\ last_op.file = 3
    /\ offset > 0
    /\ Len(loads) = 2 /\ loads[1].total > 16384 /\ loads[2].total > 16384

InChunk == pc \in {"seek", "read", "copy", "readback", "canary"}

\* C13: with every cluster extent starting at a multiple of 512 (as all
\* extents of a FAT file system with 512-byte sectors do), every seek goes to
\* a multiple of 512, every read_exact_into starts there and asks for
\* at most 16384 bytes.
C13_SectorAlignedReads ==
    (InChunk /\ cluster_start % 512 = 0)
        => /\ range_start % 512 = 0
           /\ last_op.op = "seek" => last_op.addr = range_start
           /\ last_op.op = "read_exact_into"
                => /\ last_op.addr = range_start
                   /\ last_op.addr % 512 = 0
                   /\ last_op.n <= 16384

C13_Witness ==
    /\ last_op.op = "read_exact_into" /\ pc = "copy"
    /\ offset = 16384 /\ cluster_start % 512 = 0

InLoad == InChunk \/ pc \in {"next_cluster", "loop", "returned"}

\* C14: the total load_file returns is the size of the file: it is the sum
\* of the lengths of the extents yielded so far, which is the size less the
\* bytes the traverser has left; an extent is never longer than a cluster,
\* and it is shorter only when it uses up the size.
C14_TotalIsFileSize ==
    /\ InLoad => total_size = kernel.size - clusters.remaining
    /\ (InChunk \/ pc = "loop")
          => /\ cluster_end - cluster_start <= image.bytes_per_cluster
             /\ \/ cluster_end - cluster_start = image.bytes_per_cluster
                \/ clusters.remaining = 0
    /\ pc = "returned"
          => /\ total_size = kernel.size
             /\ kernel.size = image.files[file].size
    /\ \A k \in 1..Len(loads) : loads[k].total = image.files[k].size

C14_Witness ==
    /\ pc = "returned" /\ image.bytes_per_cluster = 1024
    /\ total_size = 3000 /\ cluster_end - cluster_start = 952

\* C15: the chunks [range_start, range_end) of an extent are non-empty, at
\* most 16384 bytes long, start at the extent's start, follow one another
\* without gap or overlap and end at the extent's end; an extent of length 0
\* leaves the chunk loop at once without any operation.
C15_ChunksTileExtent ==
    /\ [](InChunk
            => /\ range_start = cluster_start + offset
               /\ range_start < range_end /\ range_end <= cluster_end
               /\ len = range_end - range_start
               /\ len >= 1 /\ len <= 16384
               /\ len = 16384 \/ range_end = cluster_end
               /\ offset % 16384 = 0)
    /\ []((pc = "loop" /\ offset > 0) => cluster_start + offset = range_end)
    /\ [][pc' = "loop" /\ pc # "loop"
            => \/ pc = "next_cluster" /\ offset' = 0
               \/ pc = "canary" /\ cluster_start + offset' = range_end]_vars
    /\ [][pc = "loop" /\ pc' = "next_cluster"
            => cluster_start + offset = cluster_end /\ n_ops' = n_ops]_vars
    /\ [][pc = "loop" /\ cluster_end = cluster_start
            => /\ pc' = "next_cluster" /\ n_ops' = n_ops
               /\ highmem' = highmem /\ DISK_BUFFER' = DISK_BUFFER]_vars
    /\ [](last_op.op = "copy_to_protected_mode" => last_op.n >= 1)

C15_Witness ==
    /\ pc = "canary" /\ offset = 16384
    /\ len = 4097 /\ range_end = cluster_end

\* the ranges [dst, dst + total) of the loads that returned and of the load
\* under way or halted (total_size is of that load once its file is found)
Regions ==
    {Range(loads[k]) : k \in 1..Len(loads)}
    \cup (IF /\ Len(loads) < file
             /\ \/ InLoad
                \/ pc = "panic" /\ last_op.op \in LoadOps \ {"find_file_in_root_dir"}
          THEN {[lo |-> dst, hi |-> dst + total_size]}
          ELSE {})

\* C16: every byte of high memory that was written lies in [dst, dst + total)
\* of a load_file call, total being the sum of the extents so far; high
\* memory changes in the copy of a chunk only, and the copy is of len bytes.
C16_WritesWithinDstTotal ==
    /\ [](\A p \in highmem : \E r \in Regions : r.lo <= p.lo /\ p.hi <= r.hi)
    /\ [][highmem' # highmem
            => /\ pc = "copy"
               /\ last_op'.op = "copy_to_protected_mode"
               /\ last_op'.n = len
               /\ last_op'.addr >= dst
               /\ last_op'.addr + last_op'.n <= dst + total_size]_vars

C16_Witness ==
    /\ pc = "returned" /\ file = 2
    /\ total_size = 321
    /\ \E p \in highmem : p.lo = dst /\ p.hi = dst + 321

\* C17: from the read_exact_into that fills DISK_BUFFER with a chunk to the
\* canary comparison of that chunk the buffer holds the chunk and no disk
\* read takes place; the cluster walk moves on only with every chunk of the
\* extent at hand copied and checked.
C17_BufferHeldUntilCanary ==
    /\ [](pc \in {"copy", "readback", "canary"} => DISK_BUFFER = range_start)
    /\ [][(pc = "copy" \/ pc = "readback" \/ pc = "canary")
            => /\ DISK_BUFFER' = DISK_BUFFER
               /\ bios_reads' = bios_reads
               /\ (last_op'.op \notin BiosReadOps \/ n_ops' = n_ops)]_vars
    /\ [][clusters' # clusters
            => /\ pc \in {"find_file", "next_cluster"}
               /\ cluster_start + offset = cluster_end]_vars

C17_Witness ==
    /\ pc = "canary" /\ DISK_BUFFER = range_start
    /\ offset > 0 /\ written = BufByte(DISK_BUFFER, 0)
    /\ clusters.remaining > 0

====
